---- MODULE Spec2Model ----
(***************************************************************************)
(* Model of script/scrape.py: the rating scraper that loads two JSON book  *)
(* catalogs, resolves one source URL per book, scrapes every distinct URL  *)
(* once, and merges the scraped (rating, count) strings back into the      *)
(* catalogs, writing a catalog only when one of its books changed.         *)
(***************************************************************************)
EXTENDS Integers, Sequences, FiniteSets, TLC

VARIABLES
    pc,            \* position of main(): load / build / scrape / apply / done / aborted
    disk,          \* path -> JSON list stored in the catalog file
    data_by_file,  \* main's dict path -> loaded list of books (insertion order = BOOKS_FILES)
    targets,       \* build_targets' dict url -> source, as its insertion-ordered items
    cache,         \* scrape_targets' dict url -> <<rating_str, count_str>>
    failures,      \* scrape_targets' failure counter
    fetches,       \* history: every requests.get issued, with the extractor that issued it
    warned,        \* history: the "Many failures" warning was printed
    before,        \* history: path -> the list handed to apply_cache, as it was before the call
    changedBy,     \* history: path -> the boolean apply_cache returned
    saves,         \* history: every write_json call, with whether it succeeded
    arg,           \* the book, or the list of books, handed to the function called directly
    calls          \* history: the direct calls of pick_source_url or apply_cache

vars == <<pc, disk, data_by_file, targets, cache, failures, fetches, warned,
          before, changedBy, saves, arg, calls>>

-----------------------------------------------------------------------------
(* Python values as they come out of json.load: None, a str, or a dict.    *)

None == [t |-> "none", s |-> "", d |-> <<>>]

Str(s) == [t |-> "str", s |-> s, d |-> <<>>]

Dict(f) == [t |-> "dict", s |-> "", d |-> f]

\* bool(v): None, "" and {} are falsy
Truthy(v) == CASE v.t = "none" -> FALSE
               [] v.t = "str"  -> v.s # ""
               [] v.t = "dict" -> DOMAIN v.d # {}

\* d.get(k): the value under k, None when the key is missing
Get(d, k) == IF k \in DOMAIN d.d THEN d.d[k] ELSE None

\* d.get(k, default)
GetOr(d, k, default) == IF k \in DOMAIN d.d THEN d.d[k] ELSE default

\* a or b
Or(a, b) == IF Truthy(a) THEN a ELSE b

\* d[k] = v
SetItem(d, k, v) == Dict((k :> v) @@ d.d)

-----------------------------------------------------------------------------
(* Program constants.                                                      *)

BOOKS_FILES == <<"books(full-list).json", "books(book-club).json">>

Paths == {BOOKS_FILES[i] : i \in DOMAIN BOOKS_FILES}

-----------------------------------------------------------------------------
(* Helpers.                                                                *)

RECURSIVE RStrip(_, _)
\* str.rstrip(ch) on a string held as a sequence of tokens
RStrip(toks, ch) ==
    IF toks # <<>> /\ toks[Len(toks)] = ch
    THEN RStrip(SubSeq(toks, 1, Len(toks) - 1), ch)
    ELSE toks

RECURSIVE Join(_)
Join(toks) == IF toks = <<>> THEN "" ELSE Head(toks) \o Join(Tail(toks))

\* f"{rating:.2f}": a rating is held as the number of hundredths the
\* two-decimal rendering shows; the integer part is one token
Fixed2(rating) ==
    <<ToString(rating \div 100), ".",
      ToString((rating \div 10) % 10), ToString(rating % 10)>>

_format_rating(rating) == Join(RStrip(RStrip(Fixed2(rating), "0"), "."))

\* mutant: the RoyalRoad URL is tried before the primary one
pick_source_url_SecondaryFirst(book) ==
    LET primary == Get(book, "url")
        vendors == Or(Get(book, "vendors"), Dict(<<>>))
        rr      == Or(Get(vendors, "rr"), Dict(<<>>))
        rr_url  == Get(rr, "url")
    IN  IF Truthy(rr_url) THEN <<Str("royalroad"), rr_url>>
        ELSE IF Truthy(primary) THEN <<Str("goodreads"), primary>>
        ELSE <<None, None>>

pick_source_url(book) ==
    LET primary == Get(book, "url")
        vendors == Or(Get(book, "vendors"), Dict(<<>>))
        rr      == Or(Get(vendors, "rr"), Dict(<<>>))
        rr_url  == Get(rr, "url")
    IN  IF Truthy(primary) THEN <<Str("goodreads"), primary>>
        ELSE IF Truthy(rr_url) THEN <<Str("royalroad"), rr_url>>
        ELSE <<None, None>>

-----------------------------------------------------------------------------
(* Core logic.                                                             *)

\* dict membership over the insertion-ordered items of a dict
Keys(items) == {items[i][1] : i \in DOMAIN items}

\* mutant: no membership test, every resolved book adds an entry
SetDefault_NoDedup(items, url, source) == Append(items, <<url, source>>)

\* mutant: plain assignment targets[url] = source, the last source seen wins
SetDefault_LastWins(items, url, source) ==
    IF url \in Keys(items)
    THEN [i \in DOMAIN items |-> IF items[i][1] = url THEN <<url, source>> ELSE items[i]]
    ELSE Append(items, <<url, source>>)

\* targets.setdefault(url, source)
SetDefault(items, url, source) ==
    IF url \in Keys(items) THEN items ELSE Append(items, <<url, source>>)

RECURSIVE BuildFrom(_, _)
BuildFrom(tg, all_books) ==
    IF all_books = <<>> THEN tg
    ELSE LET r      == pick_source_url(Head(all_books))
             source == r[1]
             url    == r[2]
         IN  IF ~Truthy(source) \/ ~Truthy(url)
             THEN BuildFrom(tg, Tail(all_books))
             ELSE BuildFrom(SetDefault(tg, url.s, source.s), Tail(all_books))

build_targets(all_books) == BuildFrom(<<>>, all_books)

\* one call of a site extractor, as the page served decides it: the pair
\* (rating, count) it returns, or the exception it raises (requests' on a
\* network or status failure, ValueError when the markup is not found)
Outcomes ==
    {[kind |-> "ok", rating |-> r, count |-> c] : r \in {450, 400}, c \in {10}}
    \cup {[kind |-> k, rating |-> 0, count |-> 0] : k \in {"fetch_error", "parse_error"}}

\* the extractor the loop body dispatches to
Extractor(source) ==
    IF source = "goodreads" THEN "scrape_goodreads" ELSE "scrape_royalroad"

\* mutant: the except branch stores an empty entry for the failed URL
scrape_one_EmptyOnFailure(st, url, source, outcome) ==
    IF outcome.kind = "ok"
    THEN [cache    |-> (url :> <<_format_rating(outcome.rating), ToString(outcome.count)>>)
                       @@ st.cache,
          failures |-> st.failures]
    ELSE [cache    |-> (url :> <<"", "">>) @@ st.cache,
          failures |-> st.failures + 1]

\* the try/except of one loop iteration of scrape_targets
scrape_one(st, url, source, outcome) ==
    IF outcome.kind = "ok"
    THEN [cache    |-> (url :> <<_format_rating(outcome.rating), ToString(outcome.count)>>)
                       @@ st.cache,
          failures |-> st.failures]
    ELSE [cache    |-> st.cache,
          failures |-> st.failures + 1]

\* failures > total * 0.3, in tenths
ManyFailures(total, nfail) == total > 0 /\ nfail * 10 > total * 3

\* mutant: changed is set for every book found in the cache
apply_book_AlwaysChanged(book, c) ==
    LET url == pick_source_url(book)[2]
    IN  IF ~Truthy(url) \/ url.s \notin DOMAIN c
        THEN <<book, FALSE>>
        ELSE <<SetItem(SetItem(book, "rating", Str(c[url.s][1])),
                       "r_count", Str(c[url.s][2])), TRUE>>

\* mutant: the two comparisons are joined by "and"
apply_book_BothDiffer(book, c) ==
    LET url == pick_source_url(book)[2]
    IN  IF ~Truthy(url) \/ url.s \notin DOMAIN c
        THEN <<book, FALSE>>
        ELSE IF /\ GetOr(book, "rating", Str("")) # Str(c[url.s][1])
                /\ GetOr(book, "r_count", Str("")) # Str(c[url.s][2])
             THEN <<SetItem(SetItem(book, "rating", Str(c[url.s][1])),
                            "r_count", Str(c[url.s][2])), TRUE>>
             ELSE <<book, FALSE>>

\* mutant: cache.get(url, ("", "")) in place of the membership test
apply_book_NoMembership(book, c) ==
    LET url  == pick_source_url(book)[2]
        pair == IF url.s \in DOMAIN c THEN c[url.s] ELSE <<"", "">>
    IN  IF ~Truthy(url)
        THEN <<book, FALSE>>
        ELSE IF \/ GetOr(book, "rating", Str("")) # Str(pair[1])
                \/ GetOr(book, "r_count", Str("")) # Str(pair[2])
             THEN <<SetItem(SetItem(book, "rating", Str(pair[1])),
                            "r_count", Str(pair[2])), TRUE>>
             ELSE <<book, FALSE>>

\* mutant: the stored rating is compared with the cached count
apply_book_SwappedCompare(book, c) ==
    LET url == pick_source_url(book)[2]
    IN  IF ~Truthy(url) \/ url.s \notin DOMAIN c
        THEN <<book, FALSE>>
        ELSE IF \/ GetOr(book, "rating", Str("")) # Str(c[url.s][2])
                \/ GetOr(book, "r_count", Str("")) # Str(c[url.s][2])
             THEN <<SetItem(SetItem(book, "rating", Str(c[url.s][1])),
                            "r_count", Str(c[url.s][2])), TRUE>>
             ELSE <<book, FALSE>>

\* mutant: an updated book is rebuilt from the fields the scraper knows
apply_book_FreshDict(book, c) ==
    LET url == pick_source_url(book)[2]
    IN  IF ~Truthy(url) \/ url.s \notin DOMAIN c
        THEN <<book, FALSE>>
        ELSE IF \/ GetOr(book, "rating", Str("")) # Str(c[url.s][1])
                \/ GetOr(book, "r_count", Str("")) # Str(c[url.s][2])
             THEN <<Dict(("url" :> url) @@ ("rating" :> Str(c[url.s][1]))
                         @@ ("r_count" :> Str(c[url.s][2]))), TRUE>>
             ELSE <<book, FALSE>>

\* the loop body of apply_cache on one book: <<book afterwards, changed>>
apply_book(book, c) ==
    LET url == pick_source_url(book)[2]
    IN  IF ~Truthy(url) \/ url.s \notin DOMAIN c
        THEN <<book, FALSE>>
        ELSE LET rating_str == c[url.s][1]
                 count_str  == c[url.s][2]
             IN  IF \/ GetOr(book, "rating", Str("")) # Str(rating_str)
                    \/ GetOr(book, "r_count", Str("")) # Str(count_str)
                 THEN <<SetItem(SetItem(book, "rating", Str(rating_str)),
                                "r_count", Str(count_str)), TRUE>>
                 ELSE <<book, FALSE>>

\* apply_cache: the list after the in-place updates, and the returned flag
apply_cache(books, c) ==
    [books   |-> [i \in DOMAIN books |-> apply_book(books[i], c)[1]],
     changed |-> \E i \in DOMAIN books : apply_book(books[i], c)[2]]

RECURSIVE Extend(_, _)
\* combined.extend(books) for every list of data_by_file.values()
Extend(byFile, i) ==
    IF i > Len(BOOKS_FILES) THEN <<>>
    ELSE byFile[BOOKS_FILES[i]] \o Extend(byFile, i + 1)

combined(byFile) == Extend(byFile, 1)

-----------------------------------------------------------------------------
(* Bounds and the catalogs a run starts from.                              *)

\* books in the two catalog files together
MaxBooks == 2

Book(f) == Dict(f)

Vendors(u) == Dict("rr" :> Dict("url" :> Str(u)))

\* the books a catalog of a run may hold
RunBooks ==
    { Book(("url" :> Str("u1")) @@ ("title" :> Str("a"))),
      Book(("url" :> Str("u1")) @@ ("title" :> Str("b"))
           @@ ("rating" :> Str("4.5")) @@ ("r_count" :> Str("10"))),
      Book(("url" :> None) @@ ("vendors" :> Vendors("u1")) @@ ("title" :> Str("c"))),
      Book(("vendors" :> None) @@ ("title" :> Str("d"))
           @@ ("rating" :> Str("4.2")) @@ ("r_count" :> Str("7"))),
      Book(("url" :> Str("")) @@ ("vendors" :> Vendors("u2")) @@ ("title" :> Str("e"))
           @@ ("rating" :> Str("4.5")) @@ ("r_count" :> Str(""))),
      Book(("url" :> Str("u2")) @@ ("vendors" :> Vendors("u1")) @@ ("title" :> Str("f"))) }

Lists(S, n) == UNION {[1..k -> S] : k \in 0..n}

NoDict == <<>>

-----------------------------------------------------------------------------
(* main().                                                                 *)

Init ==
    /\ pc = "load"
    /\ disk \in {d \in [Paths -> Lists(RunBooks, MaxBooks)] :
                    Len(d[BOOKS_FILES[1]]) + Len(d[BOOKS_FILES[2]]) <= MaxBooks}
    /\ data_by_file = NoDict
    /\ targets = <<>>
    /\ cache = NoDict
    /\ failures = 0
    /\ fetches = <<>>
    /\ warned = FALSE
    /\ before = NoDict
    /\ changedBy = NoDict
    /\ saves = <<>>
    /\ arg = <<>>
    /\ calls = <<>>

\* the file the loading loop is at
LoadPath == BOOKS_FILES[Cardinality(DOMAIN data_by_file) + 1]

\* data_by_file[path] = load_json(path)
LoadJson ==
    /\ pc = "load"
    /\ data_by_file' = data_by_file @@ (LoadPath :> disk[LoadPath])
    /\ pc' = IF Cardinality(DOMAIN data_by_file) + 1 = Len(BOOKS_FILES)
             THEN "build" ELSE "load"
    /\ UNCHANGED <<disk, targets, cache, failures, fetches, warned,
                   before, changedBy, saves, arg, calls>>

\* load_json raises (the file is missing, unreadable or no JSON): main ends
LoadJsonFails ==
    /\ pc = "load"
    /\ pc' = "aborted"
    /\ UNCHANGED <<disk, data_by_file, targets, cache, failures, fetches, warned,
                   before, changedBy, saves, arg, calls>>

\* targets = build_targets(combined); return when there is none
BuildTargets ==
    /\ pc = "build"
    /\ targets' = build_targets(combined(data_by_file))
    /\ pc' = IF targets' = <<>> THEN "done" ELSE "scrape"
    /\ UNCHANGED <<disk, data_by_file, cache, failures, fetches, warned,
                   before, changedBy, saves, arg, calls>>

\* one iteration of the loop of scrape_targets (time.sleep changes no state)
ScrapeOne ==
    /\ pc = "scrape"
    /\ Len(fetches) < Len(targets)
    /\ \E outcome \in Outcomes :
          LET url    == targets[Len(fetches) + 1][1]
              source == targets[Len(fetches) + 1][2]
              st     == scrape_one([cache |-> cache, failures |-> failures],
                                   url, source, outcome)
          IN  /\ fetches' = Append(fetches, [url |-> url, by |-> Extractor(source),
                                             outcome |-> outcome])
              /\ cache' = st.cache
              /\ failures' = st.failures
    /\ UNCHANGED <<pc, disk, data_by_file, targets, warned,
                   before, changedBy, saves, arg, calls>>

\* the loop of scrape_targets is over: the warning, and the return
ScrapeReturn ==
    /\ pc = "scrape"
    /\ Len(fetches) = Len(targets)
    /\ warned' = ManyFailures(Len(targets), failures)
    /\ pc' = "apply"
    /\ UNCHANGED <<disk, data_by_file, targets, cache, failures, fetches,
                   before, changedBy, saves, arg, calls>>

\* the file the applying loop is at
ApplyPath == BOOKS_FILES[Cardinality(DOMAIN changedBy) + 1]

AfterApply ==
    IF Cardinality(DOMAIN changedBy) + 1 = Len(BOOKS_FILES) THEN "done" ELSE "apply"

\* apply_cache on the books of the file; the effects both branches share
Applied(r) ==
    /\ before' = before @@ (ApplyPath :> data_by_file[ApplyPath])
    /\ changedBy' = changedBy @@ (ApplyPath :> r.changed)
    /\ data_by_file' = [data_by_file EXCEPT ![ApplyPath] = r.books]

\* changed is false: nothing is written
ApplyNoChange ==
    /\ pc = "apply"
    /\ LET r == apply_cache(data_by_file[ApplyPath], cache)
       IN  /\ ~r.changed
           /\ Applied(r)
    /\ pc' = AfterApply
    /\ UNCHANGED <<disk, targets, cache, failures, fetches, warned, saves, arg, calls>>

\* changed is true and write_json(path, books) succeeds
ApplyAndWrite ==
    /\ pc = "apply"
    /\ LET r == apply_cache(data_by_file[ApplyPath], cache)
       IN  /\ r.changed
           /\ Applied(r)
           /\ disk' = [disk EXCEPT ![ApplyPath] = r.books]
    /\ saves' = Append(saves, [path |-> ApplyPath, ok |-> TRUE])
    /\ pc' = AfterApply
    /\ UNCHANGED <<targets, cache, failures, fetches, warned, arg, calls>>

\* changed is true and write_json raises on open (the file is unwritable):
\* main ends with the files after it unprocessed
ApplyAndWriteFails ==
    /\ pc = "apply"
    /\ LET r == apply_cache(data_by_file[ApplyPath], cache)
       IN  /\ r.changed
           /\ Applied(r)
    /\ saves' = Append(saves, [path |-> ApplyPath, ok |-> FALSE])
    /\ pc' = "aborted"
    /\ UNCHANGED <<disk, targets, cache, failures, fetches, warned, arg, calls>>

Next ==
    \/ LoadJson
    \/ LoadJsonFails
    \/ BuildTargets
    \/ ScrapeOne
    \/ ScrapeReturn
    \/ ApplyNoChange
    \/ ApplyAndWrite
    \/ ApplyAndWriteFails

Spec == Init /\ [][Next]_vars

-----------------------------------------------------------------------------
(* Direct calls of pick_source_url and of apply_cache, on arguments drawn  *)
(* from bounded sets.                                                      *)

\* calls of the function in one behaviour
MaxCalls == 2

\* books in the list handed to apply_cache
MaxApplyBooks == 2

\* a key that is missing, or present with one of the values
Field(k, vals) == {<<>>} \cup {k :> v : v \in vals}

UrlValues == {None, Str(""), Str("u1"), Str("u2")}

VendorsValues ==
    {None, Dict(<<>>), Dict("rr" :> None), Dict("rr" :> Dict(<<>>))}
    \cup {Dict("rr" :> Dict("url" :> u)) : u \in UrlValues}

\* every shape of the fields pick_source_url reads
ResolveBooks ==
    {Book(u @@ v @@ ("title" :> Str("t"))) :
        u \in Field("url", UrlValues), v \in Field("vendors", VendorsValues)}

LinkFields ==
    { ("url" :> Str("u1")) @@ ("title" :> Str("a")),
      ("url" :> Str("")) @@ ("vendors" :> Vendors("u2")) @@ ("title" :> Str("b")),
      ("vendors" :> Dict(<<>>)) @@ ("title" :> Str("c")) }

StoredFields ==
    { <<>>,
      ("rating" :> Str("")) @@ ("r_count" :> Str("")),
      ("rating" :> Str("4.5")) @@ ("r_count" :> Str("10")),
      ("rating" :> Str("4.2")) @@ ("r_count" :> Str("10")),
      ("rating" :> Str("4.5")),
      ("rating" :> None) @@ ("r_count" :> Str("10")) }

\* the books a list handed to apply_cache may hold
ApplyBooks == {Book(l @@ st) : l \in LinkFields, st \in StoredFields}

\* the caches handed to apply_cache: formatted pairs under some of the URLs
Caches ==
    UNION {[K -> {<<"4.5", "10">>, <<"4", "10">>}] : K \in SUBSET {"u1", "u2"}}

Idle ==
    /\ pc = "call"
    /\ disk = NoDict
    /\ data_by_file = NoDict
    /\ targets = <<>>
    /\ failures = 0
    /\ fetches = <<>>
    /\ warned = FALSE
    /\ before = NoDict
    /\ changedBy = NoDict
    /\ saves = <<>>
    /\ calls = <<>>

InitResolve ==
    /\ Idle
    /\ cache = NoDict
    /\ arg \in ResolveBooks

\* source, url = pick_source_url(book)
CallPickSourceUrl ==
    /\ pc = "call"
    /\ Len(calls) < MaxCalls
    /\ calls' = Append(calls, [book |-> arg, result |-> pick_source_url(arg)])
    /\ UNCHANGED <<pc, disk, data_by_file, targets, cache, failures, fetches, warned,
                   before, changedBy, saves, arg>>

NextResolve == CallPickSourceUrl

SpecResolve == InitResolve /\ [][NextResolve]_vars

InitApply ==
    /\ Idle
    /\ cache \in Caches
    /\ arg \in Lists(ApplyBooks, MaxApplyBooks)

\* changed = apply_cache(books, cache)
CallApplyCache ==
    /\ pc = "call"
    /\ Len(calls) < MaxCalls
    /\ LET r == apply_cache(arg, cache)
       IN  /\ arg' = r.books
           /\ calls' = Append(calls, [books |-> arg, after |-> r.books,
                                      changed |-> r.changed])
    /\ UNCHANGED <<pc, disk, data_by_file, targets, cache, failures, fetches, warned,
                   before, changedBy, saves>>

NextApply == CallApplyCache

SpecApply == InitApply /\ [][NextApply]_vars

-----------------------------------------------------------------------------
(* Vocabulary of the properties.                                           *)

\* the catalogs as loaded, in catalog order then record order
AllBooks == combined(data_by_file)

Loaded == DOMAIN data_by_file = Paths

\* scrape_targets has returned to main
Scraped == pc \in {"apply", "done"} \/ (pc = "aborted" /\ saves # <<>>)

\* the book resolves to a target
Resolves(book) ==
    /\ pick_source_url(book)[1] # None
    /\ pick_source_url(book)[2] # None

UrlOf(book) == pick_source_url(book)[2].s

KindOf(book) == pick_source_url(book)[1].s

ResolvedUrls(books) == {UrlOf(books[i]) : i \in {j \in DOMAIN books : Resolves(books[j])}}

FetchesOf(u) == {i \in DOMAIN fetches : fetches[i].url = u}

Succeeded == {fetches[i].url : i \in {j \in DOMAIN fetches : fetches[j].outcome.kind = "ok"}}

Failed == {fetches[i].url : i \in {j \in DOMAIN fetches : fetches[j].outcome.kind # "ok"}}

SavedPaths == {saves[i].path : i \in DOMAIN saves}

\* the source the work list holds for a URL
SourceIn(items, u) == items[CHOOSE i \in DOMAIN items : items[i][1] = u][2]

-----------------------------------------------------------------------------
(* C1: scrape_targets processes every URL of the work list whatever the    *)
(* outcomes are, a failure of an extractor never ends the run, and the     *)
(* cache holds exactly the URLs that succeeded, each with the complete     *)
(* formatted pair of its own scrape, untouched by the failures of others.  *)

C1_FailureIsolation ==
    /\ DOMAIN cache = Succeeded
    /\ \A i \in DOMAIN fetches :
          fetches[i].outcome.kind = "ok" =>
             /\ cache[fetches[i].url][1] = _format_rating(fetches[i].outcome.rating)
             /\ cache[fetches[i].url][2] = ToString(fetches[i].outcome.count)
             /\ cache[fetches[i].url][1] # ""
             /\ cache[fetches[i].url][2] # ""
    /\ failures = Cardinality({i \in DOMAIN fetches : fetches[i].outcome.kind # "ok"})
    /\ Scraped => {fetches[i].url : i \in DOMAIN fetches} = Keys(targets)
    /\ pc = "aborted" => \/ fetches = <<>>
                         \/ (saves # <<>> /\ ~saves[Len(saves)].ok)
    /\ (pc = "scrape" /\ Len(fetches) >= 1) => ENABLED (ScrapeOne \/ ScrapeReturn)

\* two URLs, the first failed and the second succeeded, and the run went on
C1_Witness ==
    /\ pc = "done"
    /\ Len(fetches) = 2
    /\ fetches[1].outcome.kind = "parse_error"
    /\ fetches[2].outcome.kind = "ok"
    /\ DOMAIN cache = {fetches[2].url}

-----------------------------------------------------------------------------
(* C2: the work list holds exactly one entry per distinct resolved URL of  *)
(* the loaded books, and a run fetches each of them exactly once, whether  *)
(* the extraction succeeds or fails.                                       *)

C2_OneEntryOneFetch ==
    /\ (Loaded /\ pc # "build") =>
          /\ Keys(targets) = ResolvedUrls(AllBooks)
          /\ Len(targets) = Cardinality(ResolvedUrls(AllBooks))
    /\ \A u \in Keys(targets) : Cardinality(FetchesOf(u)) <= 1
    /\ \A i \in DOMAIN fetches : fetches[i].url \in Keys(targets)
    /\ Scraped => \A u \in Keys(targets) : Cardinality(FetchesOf(u)) = 1

\* a URL shared by books of both catalogs, whose only fetch failed
C2_Witness ==
    /\ pc = "done"
    /\ \E u \in Failed :
          /\ u \in ResolvedUrls(before[BOOKS_FILES[1]])
          /\ u \in ResolvedUrls(before[BOOKS_FILES[2]])
          /\ Cardinality(FetchesOf(u)) = 1

-----------------------------------------------------------------------------
(* C3: a catalog whose books found in the cache all store the cached pair  *)
(* already is left as it was, apply_cache returns false for it and main    *)
(* does not call write_json for it; write_json is called for a catalog     *)
(* exactly when apply_cache returned true for it.                          *)

\* the stored rating and r_count of the book are the cached pair
StoresCached(book, c) ==
    /\ "rating" \in DOMAIN book.d
    /\ "r_count" \in DOMAIN book.d
    /\ book.d["rating"] = Str(c[UrlOf(book)][1])
    /\ book.d["r_count"] = Str(c[UrlOf(book)][2])

InCache(book, c) == Resolves(book) /\ UrlOf(book) \in DOMAIN c

UpToDate(books, c) ==
    \A i \in DOMAIN books : InCache(books[i], c) => StoresCached(books[i], c)

C3_WriteAvoidance ==
    /\ \A p \in DOMAIN changedBy :
          UpToDate(before[p], cache) =>
             /\ data_by_file[p] = before[p]
             /\ changedBy[p] = FALSE
             /\ p \notin SavedPaths
    /\ \A p \in Paths :
          p \in SavedPaths <=> (p \in DOMAIN changedBy /\ changedBy[p])

\* one catalog had a book in the cache, up to date, and was not written; the
\* other one changed and was written
C3_Witness ==
    /\ pc = "done"
    /\ DOMAIN before = Paths
    /\ \E p \in Paths :
          /\ UpToDate(before[p], cache)
          /\ \E i \in DOMAIN before[p] : InCache(before[p][i], cache)
          /\ p \notin SavedPaths
    /\ SavedPaths # {}

-----------------------------------------------------------------------------
(* C5: two catalogs of one book each, both books on the same primary URL,  *)
(* the first without a secondary vendor, and the extraction of that URL    *)
(* ends in a parse error.                                                  *)

FileA == BOOKS_FILES[1]

FileB == BOOKS_FILES[2]

SharedUrlParseError ==
    /\ pc = "done"
    /\ DOMAIN before = Paths
    /\ Len(before[FileA]) = 1
    /\ Len(before[FileB]) = 1
    /\ Resolves(before[FileA][1])
    /\ Resolves(before[FileB][1])
    /\ KindOf(before[FileA][1]) = "goodreads"
    /\ KindOf(before[FileB][1]) = "goodreads"
    /\ UrlOf(before[FileA][1]) = UrlOf(before[FileB][1])
    /\ "vendors" \notin DOMAIN before[FileA][1].d
    /\ \E i \in DOMAIN fetches :
          /\ fetches[i].url = UrlOf(before[FileB][1])
          /\ fetches[i].outcome.kind = "parse_error"

\* C5 as stated: catalog A is updated and saved, catalog B is untouched and
\* not saved
C5_AsStated ==
    SharedUrlParseError =>
       /\ data_by_file[FileA] # before[FileA]
       /\ disk[FileA] = data_by_file[FileA]
       /\ [path |-> FileA, ok |-> TRUE] \in {saves[i] : i \in DOMAIN saves}
       /\ data_by_file[FileB] = before[FileB]
       /\ FileB \notin SavedPaths

\* C5 amended: the URL is scraped once for both catalogs, so its failure
\* leaves both catalogs untouched and neither is saved
C5_BothUntouched ==
    SharedUrlParseError =>
       /\ data_by_file[FileA] = before[FileA]
       /\ data_by_file[FileB] = before[FileB]
       /\ disk[FileA] = before[FileA]
       /\ disk[FileB] = before[FileB]
       /\ saves = <<>>

\* the scenario, with a book of catalog A that stores no rating yet
C5_Witness ==
    /\ SharedUrlParseError
    /\ "rating" \notin DOMAIN before[FileA][1].d
    /\ Len(fetches) = 1

-----------------------------------------------------------------------------
(* C6: a load or save failure of a catalog file ends the run before the    *)
(* first fetch, and never leaves one catalog written while another one     *)
(* failed to persist.                                                      *)

PersistenceFailed ==
    \/ (pc = "aborted" /\ ~Loaded)
    \/ \E i \in DOMAIN saves : ~saves[i].ok

C6_AsStated ==
    PersistenceFailed =>
       /\ fetches = <<>>
       /\ \A i \in DOMAIN saves : ~saves[i].ok

-----------------------------------------------------------------------------
(* C9: a URL that books resolve with different sources keeps the source of *)
(* the first book in catalog order then record order, its extractor is the *)
(* one of that source, and in no other way does the work list depend on    *)
(* the order of the books.                                                 *)

BooksOf(u, books) == {i \in DOMAIN books : Resolves(books[i]) /\ UrlOf(books[i]) = u}

FirstOf(u, books) ==
    CHOOSE i \in BooksOf(u, books) : \A j \in BooksOf(u, books) : i <= j

Conflicting(u, books) ==
    \E i, j \in BooksOf(u, books) : KindOf(books[i]) # KindOf(books[j])

Orders(n) == {f \in [1..n -> 1..n] : \A i, j \in 1..n : f[i] = f[j] => i = j}

Reordered(books, f) == [i \in DOMAIN books |-> books[f[i]]]

\* the work list is the one BuildTargets has just returned
JustBuilt == pc = "scrape" /\ fetches = <<>>

C9_FirstSeenSource ==
    (Loaded /\ pc # "build") =>
       /\ \A u \in Keys(targets) :
             SourceIn(targets, u) = KindOf(AllBooks[FirstOf(u, AllBooks)])
       /\ \A i \in DOMAIN fetches :
             LET first == KindOf(AllBooks[FirstOf(fetches[i].url, AllBooks)])
             IN  /\ first = "goodreads" => fetches[i].by = "scrape_goodreads"
                 /\ first = "royalroad" => fetches[i].by = "scrape_royalroad"
       /\ JustBuilt => \A f \in Orders(Len(AllBooks)) :
             LET other == build_targets(Reordered(AllBooks, f))
             IN  /\ Keys(other) = Keys(targets)
                 /\ Len(other) = Len(targets)
                 /\ \A u \in Keys(targets) :
                       ~Conflicting(u, AllBooks) =>
                          SourceIn(other, u) = SourceIn(targets, u)

\* a URL that is the secondary URL of the first book and the primary URL of a
\* later one, scraped by the secondary extractor
C9_Witness ==
    /\ Scraped
    /\ \E u \in Keys(targets) :
          /\ Conflicting(u, AllBooks)
          /\ SourceIn(targets, u) = "royalroad"
          /\ \E i \in DOMAIN fetches :
                fetches[i].url = u /\ fetches[i].by = "scrape_royalroad"

-----------------------------------------------------------------------------
(* C7: pick_source_url returns the primary URL whenever the book has a     *)
(* non-empty one, whatever its vendors are, else the non-empty RoyalRoad   *)
(* URL of vendors.rr, else (None, None); it leaves the book as it is and   *)
(* returns the same on every call.                                         *)

\* the key is there and holds a non-empty string
NonEmptyAt(d, k) ==
    /\ d.t = "dict"
    /\ k \in DOMAIN d.d
    /\ d.d[k].t = "str"
    /\ d.d[k].s # ""

HasPrimary(book) == NonEmptyAt(book, "url")

HasSecondary(book) ==
    /\ "vendors" \in DOMAIN book.d
    /\ book.d["vendors"].t = "dict"
    /\ "rr" \in DOMAIN book.d["vendors"].d
    /\ NonEmptyAt(book.d["vendors"].d["rr"], "url")

-----------------------------------------------------------------------------
(* C4: a book found in the cache whose stored rating or r_count is not the *)
(* cached one (a missing or empty field included) gets both fields set to  *)
(* the cached pair and apply_cache returns true; after apply_cache every   *)
(* book found in the cache stores the cached pair.                         *)

ApplyCalls == {i \in DOMAIN calls : "changed" \in DOMAIN calls[i]}

C4_WriteOnDiff ==
    \A k \in ApplyCalls :
       \A i \in DOMAIN calls[k].books :
          InCache(calls[k].books[i], cache) =>
             /\ Len(calls[k].after) >= i
             /\ StoresCached(calls[k].after[i], cache)
             /\ ~StoresCached(calls[k].books[i], cache) => calls[k].changed

\* a book that stored the cached rating but no r_count, and one that stored
\* an empty rating
C4_Witness ==
    /\ ApplyCalls # {}
    /\ calls[1].changed
    /\ \E i \in DOMAIN calls[1].books :
          /\ InCache(calls[1].books[i], cache)
          /\ "rating" \in DOMAIN calls[1].books[i].d
          /\ calls[1].books[i].d["rating"] = Str(cache[UrlOf(calls[1].books[i])][1])
          /\ "r_count" \notin DOMAIN calls[1].books[i].d
    /\ \E i \in DOMAIN calls[1].books :
          /\ InCache(calls[1].books[i], cache)
          /\ "rating" \in DOMAIN calls[1].books[i].d
          /\ calls[1].books[i].d["rating"] = Str("")

-----------------------------------------------------------------------------
(* C8: apply_cache leaves a book whose URL is missing or not in the cache  *)
(* as it is, and changes nothing of any book but rating and r_count: the   *)
(* other fields, the number of books and their order stay.                 *)

Scraped2 == {"rating", "r_count"}

OtherFields(book) == [k \in DOMAIN book.d \ Scraped2 |-> book.d[k]]

C8_Frame ==
    \A k \in ApplyCalls :
       /\ Len(calls[k].after) = Len(calls[k].books)
       /\ \A i \in DOMAIN calls[k].books :
             /\ Len(calls[k].after) >= i
             /\ ~InCache(calls[k].books[i], cache) =>
                   calls[k].after[i] = calls[k].books[i]
             /\ OtherFields(calls[k].after[i]) = OtherFields(calls[k].books[i])
             /\ calls[k].after[i].t = "dict"

\* a list of two books with stored ratings, one updated from the cache and
\* one whose URL the cache does not hold
C8_Witness ==
    /\ ApplyCalls # {}
    /\ Len(calls[1].books) = 2
    /\ InCache(calls[1].books[1], cache)
    /\ calls[1].after[1] # calls[1].books[1]
    /\ Resolves(calls[1].books[2])
    /\ ~InCache(calls[1].books[2], cache)
    /\ "rating" \in DOMAIN calls[1].books[2].d

-----------------------------------------------------------------------------
(* C10: a second apply_cache with the same cache returns false and leaves  *)
(* every book as the first one left it.                                    *)

C10_Idempotent ==
    \A k \in ApplyCalls :
       k >= 2 =>
          /\ calls[k].books = calls[k - 1].after
          /\ calls[k].changed = FALSE
          /\ calls[k].after = calls[k - 1].after

\* the first call changed a book, the second one found nothing to change
C10_Witness ==
    /\ Len(calls) = 2
    /\ ApplyCalls = {1, 2}
    /\ calls[1].changed
    /\ calls[1].after # calls[1].books
    /\ ~calls[2].changed

====
